---- MODULE Spec2Model ----
(***************************************************************************)
(* The vSphere virtual machine resource of terraform-provider-vsphere:     *)
(* the Create, Read, Update and Delete handlers of                         *)
(* src/vsphere/resource_vsphere_virtual_machine.go, run one invocation at  *)
(* a time by the orchestrator against a platform that answers each call    *)
(* with success or failure.                                                *)
(*                                                                         *)
(* Time is counted in units of 1/UnitsPerSecond seconds so that a          *)
(* remaining boot delay strictly between 0 and 1 second exists.            *)
(***************************************************************************)
EXTENDS Integers, Sequences, FiniteSets, TLC

VARIABLES
    d,           \* *schema.ResourceData: configuration, tracked fields, id, connection info
    plat,        \* the platform's managed object (owned by the platform)
    now,         \* wall clock, in time units
    op,          \* handler the orchestrator invoked last: none/create/read/update/delete
    pc,          \* position inside the running handler; "idle", "done" or "panic" outside
    ret,         \* what the handler returned: "none" while running, "ok" or "err"
    vm,          \* Create's local virtualMachine struct
    mvm,         \* Read's local mo.VirtualMachine (the last summary loaded successfully)
    ip_address,  \* Read's local ip_address
    remaining_boot_delay,  \* Read's local of that name, in time units
    calls,       \* platform calls and sleeps issued by the running invocation, in order
    fetched,     \* guest IP seen after each retrieval made after the budget wait
    slept,       \* time units the running invocation has slept
    snap         \* the tracked state the last Read left, while the platform's object
                 \* has not changed and no other handler has run since; else empty

vars == <<d, plat, now, op, pc, ret, vm, mvm, ip_address, remaining_boot_delay, calls, fetched, slept, snap>>

----------------------------------------------------------------------------
(* Bounds of the model *)

\* the clock stops advancing at MaxTime units
MaxTime == 5
\* retrievals made after the budget wait, per Read invocation
MaxPolls == 3

(* Values *)

UnitsPerSecond == 2

VmName == "vm1"
Templates == {"", "tmpl"}
\* schema TypeInt reads 0 when the size is not set
DiskSizes == {0, 20}
DatacenterNames == {"", "dc1"}
BootDelays == {0, 1}
StaticIps == {"", "10.0.0.9"}
GuestIps == {"", "10.0.0.5"}
\* <<CPU count, memory size>> of the platform's object
Shapes == {<<2, 1024>>, <<4, 2048>>}
DeclaredVcpus == {2}
DeclaredMemories == {1024}

\* what a retrieval that fails leaves in the log of fetched values
RetrieveFailed == "ERR"

----------------------------------------------------------------------------
(* schema.ResourceData *)

\* the resource schema: the keys d.Set can write and the type of each
\* (nic0_ip_address stands for network_interface.0.ip_address)
SchemaType ==
    [name |-> "string", boot_delay |-> "int", vcpu |-> "int", memory |-> "int",
     datacenter |-> "string", ip_address |-> "string", nic0_ip_address |-> "string"]

\* d.Get hands back an interface{} holding the schema type's value
StrVal(s) == [type |-> "string", val |-> s]
IntVal(n) == [type |-> "int", val |-> n]
\* a value that is neither: the *object.Datacenter Read hands to d.Set
ObjVal(o) == [type |-> "object", val |-> o]

\* Go's  v != w  on two interface values: unequal when the dynamic types differ
IfaceNeq(v, w) == v.type # w.type \/ v.val # w.val

\* d.Set: a key the schema does not have, or a value the field's type cannot
\* take, is an error (which the handlers ignore) and writes nothing
Set(dd, key, v) ==
    IF key \in DOMAIN SchemaType /\ SchemaType[key] = v.type
    THEN [dd EXCEPT ![key] = v.val]
    ELSE dd

SetId(dd, v) == [dd EXCEPT !.id = v]

SetConnInfo(dd, m) == [dd EXCEPT !.connInfo = m]

\* d.GetOk: the value and whether it is set to a non-zero value
GetOkDatacenter(dd) == dd.datacenter # ""

----------------------------------------------------------------------------
(* The platform *)

NoVm == [exists |-> FALSE, mem |-> 0, cpu |-> 0, hasBoot |-> FALSE, boot |-> 0, ip |-> ""]

\* the zero value of mo.VirtualMachine: BootTime is a nil pointer
ZeroMvm == [mem |-> 0, cpu |-> 0, hasBoot |-> FALSE, boot |-> 0, ip |-> ""]

NoVmStruct == [name |-> "", vcpu |-> 0, memoryMb |-> 0, template |-> "", hardDisks |-> <<>>]

\* outcomes of a platform call: TRUE success, FALSE failure
Outcomes == BOOLEAN

\* an entry of the log of calls: what was called and whether it succeeded
Call(name, okFlag) == [call |-> name, ok |-> okFlag]

\* finder.VirtualMachine: an absent VM is never found, a present one may
\* still fail to be looked up
LookupOutcomes(p) == IF p.exists THEN BOOLEAN ELSE {FALSE}

\* collector.RetrieveOne(..., &mvm): loads the summary on success, leaves mvm
\* as it was on failure
RetrieveOne(p, old, okFlag) ==
    IF okFlag
    THEN [mem |-> p.mem, cpu |-> p.cpu, hasBoot |-> p.hasBoot, boot |-> p.boot, ip |-> p.ip]
    ELSE old

Init ==
    /\ d \in [name : {VmName},
              boot_delay : BootDelays,
              vcpu : DeclaredVcpus,
              memory : DeclaredMemories,
              datacenter : DatacenterNames,
              ip_address : {""},
              nic0_ip_address : StaticIps,
              disk : {<<[template |-> t, size |-> s]>> : t \in Templates, s \in DiskSizes}
                     \cup {<<[template |-> t, size |-> s], [template |-> "", size |-> s2]>> :
                             t \in Templates, s \in DiskSizes, s2 \in DiskSizes},
              id : {""},
              connInfo : {{}}]
    /\ plat = NoVm
    /\ now = 0
    /\ op = "none"
    /\ pc = "idle"
    /\ ret = "none"
    /\ vm = NoVmStruct
    /\ mvm = ZeroMvm
    /\ ip_address = ""
    /\ remaining_boot_delay = 0
    /\ calls = <<>>
    /\ fetched = <<>>
    /\ slept = 0
    /\ snap = {}

\* the orchestrator invokes a handler only when none is running
Free == pc \in {"idle", "done"}

Return(r) ==
    /\ pc' = "done"
    /\ ret' = r

\* entering a handler: its locals are fresh, the logs of the invocation empty
Begin(o) ==
    /\ op' = o
    /\ mvm' = ZeroMvm
    /\ ip_address' = ""
    /\ remaining_boot_delay' = 0
    /\ calls' = <<>>
    /\ fetched' = <<>>
    /\ slept' = 0
    /\ snap' = IF o = "read" THEN snap ELSE {}

----------------------------------------------------------------------------
(* Create *)

\* the disk loop of Create: disks i..diskCount, carrying
\* acc = [err, template, hardDisks]; err is the early  return fmt.Errorf(...)
RECURSIVE DiskInit(_, _, _)
DiskInit(dd, i, acc) ==
    IF i > Len(dd.disk) THEN acc
    ELSE LET disk == dd.disk[i]
             withSize == [acc EXCEPT !.hardDisks[i] = disk.size]
         IN  IF i = 1
             THEN IF IfaceNeq(StrVal(disk.template), StrVal(""))
                  THEN DiskInit(dd, i + 1, [acc EXCEPT !.template = disk.template])
                  ELSE IF IfaceNeq(IntVal(disk.size), StrVal(""))
                       THEN DiskInit(dd, i + 1, withSize)
                       ELSE [acc EXCEPT !.err = TRUE]
             ELSE IF IfaceNeq(IntVal(disk.size), StrVal(""))
                  THEN DiskInit(dd, i + 1, withSize)
                  ELSE [acc EXCEPT !.err = TRUE]

\* disks := make([]hardDisk, diskCount): every size starts at zero
DiskInitStart(dd) ==
    [err |-> FALSE, template |-> "", hardDisks |-> [i \in 1..Len(dd.disk) |-> 0]]

\* outcomes of a provisioning call: the platform keeps names unique, so a
\* name that is already taken cannot be provisioned again
ProvisionOutcomes(p) == IF p.exists THEN {FALSE} ELSE BOOLEAN

\* the managed object a successful provisioning leaves on the platform;
\* whether it has booted by the time the call returns is the platform's matter
Provisioned(v, booted) ==
    [exists |-> TRUE, mem |-> v.memoryMb, cpu |-> v.vcpu,
     hasBoot |-> booted, boot |-> IF booted THEN now ELSE 0, ip |-> ""]

\* vm.deployVirtualMachine(client): clone the template
deployVirtualMachine(p, v, okFlag, booted) == IF okFlag THEN Provisioned(v, booted) ELSE p

\* vm.createVirtualMachine(client): build from scratch
createVirtualMachine(p, v, okFlag, booted) == IF okFlag THEN Provisioned(v, booted) ELSE p

\* Create up to the end of the disk loop
CreateStart ==
    /\ Free
    /\ d.id = ""
    /\ Begin("create")
    /\ LET r == DiskInit(d, 1, DiskInitStart(d))
       IN  IF r.err
           THEN /\ Return("err")
                /\ vm' = NoVmStruct
           ELSE /\ pc' = "create_provision"
                /\ ret' = "none"
                /\ vm' = [name |-> d.name, vcpu |-> d.vcpu, memoryMb |-> d.memory,
                          template |-> r.template, hardDisks |-> r.hardDisks]
    /\ UNCHANGED <<d, plat, now>>

\* a slip that goes on to the final Read without d.SetId(vm.name)
AfterProvisionNoSetId(okFlag) ==
    IF okFlag
    THEN /\ d' = d
         /\ pc' = "read_dc"
         /\ ret' = ret
    ELSE /\ Return("err")
         /\ d' = d

\* what follows a provisioning call: error return, or SetId and the final Read
AfterProvision(okFlag) ==
    IF okFlag
    THEN /\ d' = SetId(d, vm.name)
         /\ pc' = "read_dc"
         /\ ret' = ret
    ELSE /\ Return("err")
         /\ d' = d

\* if vm.template != "" { err := vm.deployVirtualMachine(client) ...
CreateDeploy ==
    /\ pc = "create_provision"
    /\ vm.template # ""
    /\ \E okFlag \in ProvisionOutcomes(plat), booted \in BOOLEAN :
          /\ plat' = deployVirtualMachine(plat, vm, okFlag, booted)
          /\ AfterProvision(okFlag)
          /\ calls' = Append(calls, Call("deployVirtualMachine", okFlag))
    /\ UNCHANGED <<now, op, vm, mvm, ip_address, remaining_boot_delay, fetched, slept, snap>>

\* a slip that loses the else: the create call no longer depends on the template
CreateScratchAlways ==
    /\ pc = "create_provision"
    /\ \E okFlag \in ProvisionOutcomes(plat), booted \in BOOLEAN :
          /\ plat' = createVirtualMachine(plat, vm, okFlag, booted)
          /\ AfterProvision(okFlag)
          /\ calls' = Append(calls, Call("createVirtualMachine", okFlag))
    /\ UNCHANGED <<now, op, vm, mvm, ip_address, remaining_boot_delay, fetched, slept, snap>>

\* ... } else { err := vm.createVirtualMachine(client) ...
CreateScratch ==
    /\ pc = "create_provision"
    /\ vm.template = ""
    /\ \E okFlag \in ProvisionOutcomes(plat), booted \in BOOLEAN :
          /\ plat' = createVirtualMachine(plat, vm, okFlag, booted)
          /\ AfterProvision(okFlag)
          /\ calls' = Append(calls, Call("createVirtualMachine", okFlag))
    /\ UNCHANGED <<now, op, vm, mvm, ip_address, remaining_boot_delay, fetched, slept, snap>>

----------------------------------------------------------------------------
(* Read *)

\* the finder call the handlers make for the datacenter: the configured one
\* when "datacenter" is set, the default one otherwise
DatacenterCall(dd) ==
    IF GetOkDatacenter(dd) THEN "finder.Datacenter" ELSE "finder.DefaultDatacenter"

\* float64(boot_delay) - duration.Seconds(), in time units
RemainingBootDelay(dd, m, t) == dd.boot_delay * UnitsPerSecond - (t - m.boot)

\* int(remaining_boot_delay): whole seconds, the fraction cut off
WholeSeconds(remaining) == remaining \div UnitsPerSecond

\* delaySecond(n): time.Sleep(n * time.Second), in time units
delaySecond(n) == n * UnitsPerSecond

\* the orchestrator refreshes a resource it tracks
ReadStart ==
    /\ Free
    /\ d.id # ""
    /\ Begin("read")
    /\ pc' = "read_dc"
    /\ ret' = "none"
    /\ vm' = NoVmStruct
    /\ UNCHANGED <<d, plat, now>>

\* finder.Datacenter / finder.DefaultDatacenter; an error is returned
ReadDatacenter ==
    /\ pc = "read_dc"
    /\ \E okFlag \in Outcomes :
          /\ calls' = Append(calls, Call(DatacenterCall(d), okFlag))
          /\ IF okFlag
             THEN pc' = "read_vm" /\ ret' = ret
             ELSE Return("err")
    /\ UNCHANGED <<d, plat, now, op, vm, mvm, ip_address, remaining_boot_delay, fetched, slept, snap>>

\* a slip that returns the lookup error like the datacenter's
ReadVirtualMachineHardError ==
    /\ pc = "read_vm"
    /\ \E found \in LookupOutcomes(plat) :
          /\ calls' = Append(calls, Call("finder.VirtualMachine", found))
          /\ IF found
             THEN pc' = "read_summary" /\ ret' = ret
             ELSE Return("err")
    /\ UNCHANGED <<d, plat, now, op, vm, mvm, ip_address, remaining_boot_delay, fetched, slept, snap>>

\* finder.VirtualMachine; on an error the id is cleared and nil returned
ReadVirtualMachine ==
    /\ pc = "read_vm"
    /\ \E found \in LookupOutcomes(plat) :
          /\ calls' = Append(calls, Call("finder.VirtualMachine", found))
          /\ IF found
             THEN pc' = "read_summary" /\ ret' = ret /\ d' = d /\ snap' = snap
             ELSE Return("ok") /\ d' = SetId(d, "") /\ snap' = {}
    /\ UNCHANGED <<plat, now, op, vm, mvm, ip_address, remaining_boot_delay, fetched, slept>>

\* a slip that reads the computed top-level ip_address instead
StaticDeclaredTopLevel(dd) == IfaceNeq(StrVal(dd.ip_address), StrVal(""))

\* d.Get("network_interface.0.ip_address") != ""
StaticDeclared(dd) == IfaceNeq(StrVal(dd.nic0_ip_address), StrVal(""))

\* the tracked fields Read writes from the summary it holds
SetSummary(dd, m) ==
    Set(Set(Set(dd, "datacenter", ObjVal("dc")), "memory", IntVal(m.mem)), "cpu", IntVal(m.cpu))

\* the first retrieval (its error ignored), the d.Set calls, and the choice
\* between the static address and the boot delay computation
ReadSummary ==
    /\ pc = "read_summary"
    /\ \E okFlag \in Outcomes :
          /\ mvm' = RetrieveOne(plat, mvm, okFlag)
          /\ calls' = Append(calls, Call("RetrieveOne", okFlag))
    /\ d' = SetSummary(d, mvm')
    /\ IF StaticDeclared(d)
       THEN /\ ip_address' = d.nic0_ip_address
            /\ pc' = "read_set"
            /\ remaining_boot_delay' = remaining_boot_delay
       ELSE /\ ip_address' = ip_address
            /\ IF ~mvm'.hasBoot
               THEN \* *mvm.Summary.Runtime.BootTime on a nil pointer
                    pc' = "panic" /\ remaining_boot_delay' = remaining_boot_delay
               ELSE /\ remaining_boot_delay' = RemainingBootDelay(d, mvm', now)
                    /\ pc' = IF remaining_boot_delay' > 0 THEN "read_delay" ELSE "read_assign"
    /\ UNCHANGED <<plat, now, op, ret, vm, fetched, slept, snap>>

\* delaySecond(time.Duration(int(remaining_boot_delay)))
ReadDelay ==
    /\ pc = "read_delay"
    /\ now + delaySecond(WholeSeconds(remaining_boot_delay)) <= MaxTime
    /\ now' = now + delaySecond(WholeSeconds(remaining_boot_delay))
    /\ slept' = slept + delaySecond(WholeSeconds(remaining_boot_delay))
    /\ calls' = Append(calls, Call("delaySecond", TRUE))
    /\ pc' = "read_refetch"
    /\ UNCHANGED <<d, plat, op, ret, vm, mvm, ip_address, remaining_boot_delay, fetched, snap>>

\* one retrieval after the budget wait: RetrieveOne, then
\* ip_address = mvm.Summary.Guest.IpAddress
Fetch(okFlag) ==
    /\ mvm' = RetrieveOne(plat, mvm, okFlag)
    /\ ip_address' = mvm'.ip
    /\ fetched' = Append(fetched, IF okFlag THEN plat.ip ELSE RetrieveFailed)
    /\ calls' = Append(calls, Call("RetrieveOne", okFlag))

\* a slip that tests once (if) instead of looping (for)
LoopTestOnce(ip) == "read_assign"

\* the loop condition  for ip_address == ""
LoopTest(ip) == IF ip = "" THEN "read_loop" ELSE "read_assign"

\* "reconnect to refresh ip": the retrieval right after the budget wait
ReadRefetch ==
    /\ pc = "read_refetch"
    /\ \E okFlag \in Outcomes : Fetch(okFlag)
    /\ pc' = LoopTest(ip_address')
    /\ UNCHANGED <<d, plat, now, op, ret, vm, remaining_boot_delay, slept, snap>>

\* loop body, first half: retrieve again
ReadLoopFetch ==
    /\ pc = "read_loop"
    /\ Len(fetched) < MaxPolls
    /\ \E okFlag \in Outcomes : Fetch(okFlag)
    /\ pc' = "read_loop_sleep"
    /\ UNCHANGED <<d, plat, now, op, ret, vm, remaining_boot_delay, slept, snap>>

\* loop body, second half: delaySecond(1), then the loop condition
ReadLoopSleep ==
    /\ pc = "read_loop_sleep"
    /\ now + delaySecond(1) <= MaxTime
    /\ now' = now + delaySecond(1)
    /\ slept' = slept + delaySecond(1)
    /\ calls' = Append(calls, Call("delaySecond", TRUE))
    /\ pc' = LoopTest(ip_address)
    /\ UNCHANGED <<d, plat, op, ret, vm, mvm, ip_address, remaining_boot_delay, fetched, snap>>

\* ip_address = mvm.Summary.Guest.IpAddress, at the end of the DHCP branch
ReadAssign ==
    /\ pc = "read_assign"
    /\ ip_address' = mvm.ip
    /\ pc' = "read_set"
    /\ UNCHANGED <<d, plat, now, op, ret, vm, mvm, remaining_boot_delay, calls, fetched, slept, snap>>

\* d.Set("ip_address", ip_address), d.SetConnInfo({host: ip_address}), return nil
ReadSet ==
    /\ pc = "read_set"
    /\ d' = SetConnInfo(Set(d, "ip_address", StrVal(ip_address)), {<<"host", ip_address>>})
    /\ Return("ok")
    /\ snap' = {d'}
    /\ UNCHANGED <<plat, now, op, vm, mvm, ip_address, remaining_boot_delay, calls, fetched, slept>>

----------------------------------------------------------------------------
(* Update *)

\* the framework calls Update with the changed configuration in d: vcpu and
\* memory are not ForceNew, so a change to them reaches Update
UpdateStart ==
    /\ Free
    /\ d.id # ""
    /\ Begin("update")
    /\ \E shape \in Shapes : d' = [d EXCEPT !.vcpu = shape[1], !.memory = shape[2]]
    /\ pc' = "update"
    /\ ret' = "none"
    /\ vm' = NoVmStruct
    /\ UNCHANGED <<plat, now>>

\* an Update that applied the declared shape to the object
UpdateReconfigures ==
    /\ pc = "update"
    /\ Return("ok")
    /\ plat' = [plat EXCEPT !.cpu = d.vcpu, !.mem = d.memory]
    /\ calls' = Append(calls, Call("Reconfigure", TRUE))
    /\ UNCHANGED <<d, now, op, vm, mvm, ip_address, remaining_boot_delay, fetched, slept, snap>>

\* return nil
Update ==
    /\ pc = "update"
    /\ Return("ok")
    /\ UNCHANGED <<d, plat, now, op, vm, mvm, ip_address, remaining_boot_delay, calls, fetched, slept, snap>>

----------------------------------------------------------------------------
(* Delete *)

\* the orchestrator destroys a resource it tracks
DeleteStart ==
    /\ Free
    /\ d.id # ""
    /\ Begin("delete")
    /\ pc' = "delete_dc"
    /\ ret' = "none"
    /\ vm' = NoVmStruct
    /\ UNCHANGED <<d, plat, now>>

\* one call of Delete: log it, go on to the next position on success and
\* return the error on failure
DeleteCall(at, name, next, outcomes) ==
    /\ pc = at
    /\ \E okFlag \in outcomes :
          /\ calls' = Append(calls, Call(name, okFlag))
          /\ IF okFlag
             THEN pc' = next /\ ret' = ret
             ELSE Return("err")

DeleteDatacenter ==
    /\ DeleteCall("delete_dc", DatacenterCall(d), "delete_vm", Outcomes)
    /\ UNCHANGED <<d, plat, now, op, vm, mvm, ip_address, remaining_boot_delay, fetched, slept, snap>>

DeleteVirtualMachine ==
    /\ DeleteCall("delete_vm", "finder.VirtualMachine", "delete_poweroff", LookupOutcomes(plat))
    /\ UNCHANGED <<d, plat, now, op, vm, mvm, ip_address, remaining_boot_delay, fetched, slept, snap>>

\* task, err := vm.PowerOff(...)
DeletePowerOff ==
    /\ DeleteCall("delete_poweroff", "PowerOff", "delete_poweroff_wait", Outcomes)
    /\ UNCHANGED <<d, plat, now, op, vm, mvm, ip_address, remaining_boot_delay, fetched, slept, snap>>

\* a slip that drops the error check after the power-off wait
DeletePowerOffWaitUnchecked ==
    /\ pc = "delete_poweroff_wait"
    /\ \E okFlag \in Outcomes : calls' = Append(calls, Call("PowerOff.Wait", okFlag))
    /\ pc' = "delete_destroy"
    /\ UNCHANGED <<d, plat, now, op, ret, vm, mvm, ip_address, remaining_boot_delay, fetched, slept, snap>>

\* err = task.Wait(...)
DeletePowerOffWait ==
    /\ DeleteCall("delete_poweroff_wait", "PowerOff.Wait", "delete_destroy", Outcomes)
    /\ UNCHANGED <<d, plat, now, op, vm, mvm, ip_address, remaining_boot_delay, fetched, slept, snap>>

\* task, err = vm.Destroy(...)
DeleteDestroy ==
    /\ DeleteCall("delete_destroy", "Destroy", "delete_destroy_wait", Outcomes)
    /\ UNCHANGED <<d, plat, now, op, vm, mvm, ip_address, remaining_boot_delay, fetched, slept, snap>>

\* a slip that clears the id before the destroy wait's error is checked
DeleteDestroyWaitClearsFirst ==
    /\ DeleteCall("delete_destroy_wait", "Destroy.Wait", "delete_setid", Outcomes)
    /\ plat' = IF pc' = "delete_setid" THEN NoVm ELSE plat
    /\ d' = SetId(d, "")
    /\ UNCHANGED <<now, op, vm, mvm, ip_address, remaining_boot_delay, fetched, slept, snap>>

\* err = task.Wait(...): a destroy task that completes removes the object
DeleteDestroyWait ==
    /\ DeleteCall("delete_destroy_wait", "Destroy.Wait", "delete_setid", Outcomes)
    /\ plat' = IF pc' = "delete_setid" THEN NoVm ELSE plat
    /\ UNCHANGED <<d, now, op, vm, mvm, ip_address, remaining_boot_delay, fetched, slept, snap>>

\* d.SetId(""), return nil
DeleteSetId ==
    /\ pc = "delete_setid"
    /\ d' = SetId(d, "")
    /\ Return("ok")
    /\ UNCHANGED <<plat, now, op, vm, mvm, ip_address, remaining_boot_delay, calls, fetched, slept, snap>>

----------------------------------------------------------------------------
(* The environment *)
(* The handlers observe the clock only in time.Since (ReadSummary) and the  *)
(* platform's object only in a lookup or a retrieval, so time passing or the *)
(* object changing anywhere else is the same as it happening right before    *)
(* the next observation: the environment moves at those positions.          *)

ReadsClock == pc = "read_summary"

LooksUp == pc \in {"read_vm", "delete_vm"}

Retrieves == pc \in {"read_summary", "read_refetch", "read_loop"}

\* time passes
Tick ==
    /\ ReadsClock
    /\ now < MaxTime
    /\ now' = now + 1
    /\ UNCHANGED <<d, plat, op, pc, ret, vm, mvm, ip_address, remaining_boot_delay, calls, fetched, slept, snap>>

\* the guest acquires or loses its address
PlatformGuestIp ==
    /\ Retrieves
    /\ plat.exists
    /\ \E ip \in GuestIps \ {plat.ip} : plat' = [plat EXCEPT !.ip = ip]
    /\ snap' = {}
    /\ UNCHANGED <<d, now, op, pc, ret, vm, mvm, ip_address, remaining_boot_delay, calls, fetched, slept>>

\* the object is deleted outside the controller
PlatformRemove ==
    /\ LooksUp
    /\ plat.exists
    /\ plat' = NoVm
    /\ snap' = {}
    /\ UNCHANGED <<d, now, op, pc, ret, vm, mvm, ip_address, remaining_boot_delay, calls, fetched, slept>>

\* the object is reconfigured outside the controller (drift)
PlatformReconfigure ==
    /\ Retrieves
    /\ plat.exists
    /\ \E shape \in Shapes \ {<<plat.cpu, plat.mem>>} :
          plat' = [plat EXCEPT !.cpu = shape[1], !.mem = shape[2]]
    /\ snap' = {}
    /\ UNCHANGED <<d, now, op, pc, ret, vm, mvm, ip_address, remaining_boot_delay, calls, fetched, slept>>

----------------------------------------------------------------------------

Next ==
    \/ CreateStart
    \/ CreateDeploy
    \/ CreateScratch
    \/ ReadStart
    \/ ReadDatacenter
    \/ ReadVirtualMachine
    \/ ReadSummary
    \/ ReadDelay
    \/ ReadRefetch
    \/ ReadLoopFetch
    \/ ReadLoopSleep
    \/ ReadAssign
    \/ ReadSet
    \/ UpdateStart
    \/ Update
    \/ DeleteStart
    \/ DeleteDatacenter
    \/ DeleteVirtualMachine
    \/ DeletePowerOff
    \/ DeletePowerOffWait
    \/ DeleteDestroy
    \/ DeleteDestroyWait
    \/ DeleteSetId
    \/ Tick
    \/ PlatformGuestIp
    \/ PlatformRemove
    \/ PlatformReconfigure

Spec == Init /\ [][Next]_vars

----------------------------------------------------------------------------
(* Properties *)

Range(s) == {s[i] : i \in DOMAIN s}

\* Read runs on its own and as the last statement of Create
InRead == op \in {"read", "create"}

Called(name) == \E i \in DOMAIN calls : calls[i].call = name

Succeeded(name) == Call(name, TRUE) \in Range(calls)

Returned(r) == pc = "done" /\ ret = r

\* a Read that found the VM and returned nil
ReadFoundOk == InRead /\ Returned("ok") /\ Succeeded("finder.VirtualMachine")

\* C1: a Create whose first disk has an empty template and no size returns a
\* validation error, issues no platform call and leaves the identity empty
C1_MissingSizeRejected ==
    (op = "create" /\ d.disk[1].template = "" /\ d.disk[1].size = 0)
        => (Returned("err") /\ calls = <<>> /\ d.id = "")

\* C2: on the DHCP path with no boot delay remaining, Read does not sleep for
\* the budget but polls, so the address it records is never empty
C2_NoBudgetLeftStillPolls ==
    (ReadFoundOk /\ d.nic0_ip_address = "" /\ remaining_boot_delay <= 0)
        => (~Called("delaySecond") /\ fetched # <<>> /\ d.ip_address # "")

\* C3: in a Delete, a destroy submission is preceded by a successful power-off
\* submission and a successful power-off wait, the destroy wait by a successful
\* destroy submission, and no call follows a failed one
C3_PowerOffBeforeDestroy ==
    op = "delete" =>
        \A i \in DOMAIN calls :
            /\ calls[i].call = "Destroy" =>
                  \E j \in 1..(i - 1) :
                      /\ calls[j] = Call("PowerOff.Wait", TRUE)
                      /\ \E k \in 1..(j - 1) : calls[k] = Call("PowerOff", TRUE)
            /\ calls[i].call = "Destroy.Wait" =>
                  \E j \in 1..(i - 1) : calls[j] = Call("Destroy", TRUE)
            /\ ~calls[i].ok => i = Len(calls)

C3_Witness ==
    /\ op = "delete"
    /\ Called("Destroy.Wait")

\* C4: whenever Create returns an error the tracked identity is empty
C4_FailedCreateLeavesNoIdentity ==
    (op = "create" /\ Returned("err")) => d.id = ""

\* C5: a step of Delete changes the tracked identity only by clearing it right
\* after a successful destroy wait, on the way to returning nil; every other
\* step, every error return among them, leaves it as it was
C5_FailedDeleteKeepsIdentity ==
    [][op' = "delete" =>
          \/ d'.id = d.id
          \/ /\ d'.id = ""
             /\ ret' = "ok"
             /\ calls # <<>>
             /\ calls[Len(calls)] = Call("Destroy.Wait", TRUE)]_vars

C5_Witness ==
    /\ op = "delete"
    /\ Returned("err")
    /\ d.id = d.name
    /\ Call("Destroy.Wait", FALSE) \in Range(calls)

\* C6: when Read has the datacenter and the VM lookup fails, as it does when
\* the VM is absent, Read clears the identity, returns nil, writes no other
\* field, and neither retrieves properties nor sleeps
C6_AbsentVmClearsIdentity ==
    [][(pc = "read_vm" /\ pc' # "read_vm" /\ (~plat.exists \/ pc' = "done")) =>
          /\ d' = [d EXCEPT !.id = ""]
          /\ pc' = "done"
          /\ ret' = "ok"
          /\ fetched' = <<>>
          /\ slept' = 0
          /\ \A i \in DOMAIN calls' : calls'[i].call \notin {"RetrieveOne", "delaySecond"}]_vars

C6_Witness ==
    /\ InRead
    /\ Returned("ok")
    /\ ~plat.exists
    /\ d.id = ""
    /\ calls # <<>>
    /\ calls[Len(calls)] = Call("finder.VirtualMachine", FALSE)

\* C7 as stated: whenever Create returns success the tracked identity is the
\* VM name
C7_CreateSuccessTracksName ==
    (op = "create" /\ Returned("ok")) => d.id = d.name

\* C7 amended: whenever Create returns success, provisioning succeeded and the
\* tracked identity is the VM name if the final Read found the VM and empty if
\* its lookup failed
C7_CreateSuccessIdentity ==
    (op = "create" /\ Returned("ok")) =>
        /\ Succeeded("deployVirtualMachine") \/ Succeeded("createVirtualMachine")
        /\ d.id = IF Succeeded("finder.VirtualMachine") THEN d.name ELSE ""

C7_Witness ==
    /\ op = "create"
    /\ Returned("ok")
    /\ Succeeded("finder.VirtualMachine")
    /\ d.id = VmName

\* C8: with a static address on the first interface Read never polls and never
\* sleeps, retrieves the summary at most once, and records the static address
\* as ip_address and as the connection host
C8_StaticAddressNoPolling ==
    (InRead /\ d.nic0_ip_address # "") =>
        /\ fetched = <<>>
        /\ slept = 0
        /\ ~Called("delaySecond")
        /\ Cardinality({i \in DOMAIN calls : calls[i].call = "RetrieveOne"}) <= 1
        /\ ReadFoundOk =>
              /\ d.ip_address = d.nic0_ip_address
              /\ d.connInfo = {<<"host", d.nic0_ip_address>>}

C8_Witness ==
    /\ ReadFoundOk
    /\ d.nic0_ip_address # ""
    /\ d.boot_delay > 0
    /\ mvm.ip \notin {"", d.nic0_ip_address}
    /\ d.ip_address = d.nic0_ip_address

\* C9: when every retrieval after the budget wait reports a guest IP, none is
\* made after one that reported a non-empty address, and a Read that returns
\* after polling does so on a non-empty address, the last one fetched, which is
\* the address it records
C9_PollUntilFirstAddress ==
    (\A i \in DOMAIN fetched : fetched[i] # RetrieveFailed) =>
        /\ \A i \in 1..(Len(fetched) - 1) : fetched[i] = ""
        /\ (Returned("ok") /\ fetched # <<>>) =>
              /\ fetched[Len(fetched)] # ""
              /\ d.ip_address = fetched[Len(fetched)]

C9_Witness ==
    /\ Returned("ok")
    /\ fetched = <<"", "", "10.0.0.5">>
    /\ d.ip_address = "10.0.0.5"

\* C10: after a Read that finds the VM, retrieves its summary and returns nil,
\* tracked memory and vcpu are the summary's, tracked ip_address is the
\* resolved address and the connection info is exactly {host: that address}
C10_ReadWritesPlatformValues ==
    (ReadFoundOk /\ \A i \in DOMAIN calls : calls[i].ok) =>
        /\ d.memory = mvm.mem
        /\ d.vcpu = mvm.cpu
        /\ d.ip_address = ip_address
        /\ d.connInfo = {<<"host", ip_address>>}

\* C11: a Create that gets past its disk loop makes exactly one provisioning
\* call, its first call: the deploy when the first disk has a template (with
\* or without a size), the create otherwise; a template never fails the disk
\* loop; and the identity is set only after that call succeeded
C11_OneProvisioningPath ==
    op = "create" =>
        /\ \A i \in DOMAIN calls :
              calls[i].call \in {"deployVirtualMachine", "createVirtualMachine"} =>
                  /\ i = 1
                  /\ calls[i].call = IF d.disk[1].template # ""
                                     THEN "deployVirtualMachine"
                                     ELSE "createVirtualMachine"
        /\ calls # <<>> => calls[1].call \in {"deployVirtualMachine", "createVirtualMachine"}
        /\ d.disk[1].template # "" => ~(Returned("err") /\ calls = <<>>)
        /\ d.id # "" => (calls # <<>> /\ calls[1].ok)

C11_Witness ==
    /\ op = "create"
    /\ d.disk[1].template # ""
    /\ d.disk[1].size = 0
    /\ Succeeded("deployVirtualMachine")
    /\ d.id = VmName

\* C12: a Read that finds the VM and returns nil right after another Read,
\* with the platform's object unchanged in between, leaves the tracked state
\* the first one left
C12_ReadIdempotent ==
    [][(/\ op' = "read"
        /\ pc # "done" /\ pc' = "done" /\ ret' = "ok"
        /\ Call("finder.VirtualMachine", TRUE) \in Range(calls')
        /\ snap # {}) => d' \in snap]_vars

LookupCalls == {"finder.Datacenter", "finder.DefaultDatacenter", "finder.VirtualMachine"}

\* the handler has returned on a lookup that failed
LookupFailed ==
    /\ pc = "done"
    /\ calls # <<>>
    /\ calls[Len(calls)].call \in LookupCalls
    /\ ~calls[Len(calls)].ok

\* C13: a Read whose datacenter or VM lookup fails clears the identity and
\* returns nil; a Delete whose datacenter or VM lookup fails returns the error
C13_ReadLookupFailureClears ==
    LookupFailed =>
        /\ InRead => (ret = "ok" /\ d.id = "")
        /\ op = "delete" => ret = "err"

\* C14: a Create with a disk after the first that has no size returns an
\* error without any provisioning call
C14_AdditionalDiskNeedsSize ==
    (op = "create" /\ \E i \in 2..Len(d.disk) : d.disk[i].size = 0)
        => (Returned("err") /\ calls = <<>> /\ ~plat.exists)

\* C15, the half a finite run decides: on the DHCP path a Read that has found
\* the VM returns only nil, and only once it holds a non-empty guest IP, which
\* is the address it records; while the guest IP is empty it does not return
C15_DhcpReadReturnsOnlyWithAddress ==
    (InRead /\ pc = "done" /\ Succeeded("finder.VirtualMachine") /\ d.nic0_ip_address = "")
        => (ret = "ok" /\ mvm.ip # "" /\ d.ip_address = mvm.ip)

\* C16: the 1-second sleep of the polling loop follows only a fetch that
\* brought no address
C16_SleepOnlyAfterEmptyFetch ==
    (/\ Len(calls) >= 2
     /\ calls[Len(calls)].call = "delaySecond"
     /\ calls[Len(calls) - 1].call = "RetrieveOne"
     /\ fetched # <<>>)
        => fetched[Len(fetched)] \in {"", RetrieveFailed}

\* C17: the first fetch after the budget wait is not made before boot_delay
\* seconds have passed since the boot timestamp Read holds
C17_FirstFetchAfterBootDelay ==
    pc = "read_refetch" => now >= mvm.boot + d.boot_delay * UnitsPerSecond

\* C18: Read never faults on a boot timestamp that is absent
C18_ReadNeverFaults ==
    InRead => pc # "panic"

\* C19: Update contacts nothing and changes nothing, whatever change to the
\* mutable fields it is handed: it returns success with the resource data and
\* the platform object exactly as they were when it was entered.
C19_UpdateIsNoOp ==
    [][pc = "update" =>
          /\ pc' = "done" /\ ret' = "ok"
          /\ d' = d
          /\ plat' = plat
          /\ calls' = <<>>]_vars

\* Update has returned for a changed shape and the object still has the old one
C19_Witness ==
    /\ op = "update"
    /\ Returned("ok")
    /\ plat.exists
    /\ <<d.vcpu, d.memory>> # <<plat.cpu, plat.mem>>
    /\ d.vcpu \notin DeclaredVcpus
    /\ calls = <<>>

====
